---- MODULE Spec2Model ----
(***************************************************************************)
(* A model of the statistics engine of src/src/statistics-engine.py: one   *)
(* invocation of analyze_data / StatisticsEngine.analyze, stage by stage.  *)
(*                                                                         *)
(* Numbers.  Probabilities are integers in thousandths (0 .. PScale), NaN   *)
(* is the p-value a scipy routine returns on degenerate data.  Means,       *)
(* variances and squared statistics are exact rationals <<num, den>>.       *)
(* The p-values of the scipy hypothesis tests (shapiro, levene, ttest_*,    *)
(* mannwhitneyu, f_oneway, kruskal, f.cdf) are results of library code that *)
(* is not part of the repository: they are drawn from small sets.  The      *)
(* post-hoc statistics the repository computes itself are computed here as  *)
(* the code computes them, on squared statistics, and norm.cdf / t.cdf are  *)
(* tabulated on a grid.                                                     *)
(***************************************************************************)
EXTENDS Integers, Sequences, FiniteSets, TLC

(* ------------------------------ bounds --------------------------------- *)

\* The largest number of groups of a request.
MaxGroups == 3

(* --------------------------- number model ------------------------------ *)

\* 1.0 as a probability, in thousandths.
PScale == 10 * 10 * 10

\* The not-a-number p-value.
NaN == 0 - 1

IsNaN(p) == p = NaN

\* Python's  a < b  on floats: False when either side is NaN.
FloatLt(a, b) == ~IsNaN(a) /\ ~IsNaN(b) /\ a < b

\* Python's  a > b  on floats: False when either side is NaN.
FloatGt(a, b) == ~IsNaN(a) /\ ~IsNaN(b) /\ a > b

Abs(x) == IF x < 0 THEN 0 - x ELSE x

RECURSIVE Gcd(_, _)
Gcd(a, b) == IF b = 0 THEN a ELSE Gcd(b, a % b)

\* Rationals <<num, den>> in lowest terms, den > 0.  <<0, 0>> is NaN and
\* <<1, 0>> is +inf, as numpy produces them on a division by zero.
RNaN == <<0, 0>>
RInf == <<1, 0>>
RIsNaN(r) == r = RNaN
RIsInf(r) == r = RInf
RFinite(r) == r[2] # 0

Norm(n, d) ==
    IF d = 0 THEN (IF n = 0 THEN RNaN ELSE RInf)
    ELSE LET g == Gcd(Abs(n), Abs(d))
             s == IF d < 0 THEN 0 - 1 ELSE 1
         IN  <<(s * n) \div g, (s * d) \div g>>

Rat(n) == <<n, 1>>

\* Sum, difference and product of finite rationals, common factors taken out
\* before multiplying.
AddFinite(a, b) ==
    LET g == Gcd(a[2], b[2])
    IN  Norm(a[1] * (b[2] \div g) + b[1] * (a[2] \div g), (a[2] \div g) * b[2])

MulFinite(a, b) ==
    LET g1 == Gcd(Abs(a[1]), b[2])
        g2 == Gcd(Abs(b[1]), a[2])
    IN  Norm((a[1] \div g1) * (b[1] \div g2), (a[2] \div g2) * (b[2] \div g1))

RAdd(a, b) ==
    IF RIsNaN(a) \/ RIsNaN(b) THEN RNaN
    ELSE IF RIsInf(a) \/ RIsInf(b) THEN RInf
    ELSE AddFinite(a, b)

RSub(a, b) ==
    IF RIsNaN(a) \/ RIsNaN(b) THEN RNaN
    ELSE IF RIsInf(a) /\ RIsInf(b) THEN RNaN
    ELSE IF RIsInf(a) THEN RInf
    ELSE AddFinite(a, <<0 - b[1], b[2]>>)

RMul(a, b) ==
    IF RIsNaN(a) \/ RIsNaN(b) THEN RNaN
    ELSE IF RIsInf(a) \/ RIsInf(b)
         THEN (IF a[1] = 0 \/ b[1] = 0 THEN RNaN ELSE RInf)
    ELSE MulFinite(a, b)

\* numpy float division: x/0 is inf, 0/0 is nan, x/inf is 0.
RDiv(a, b) ==
    IF RIsNaN(a) \/ RIsNaN(b) THEN RNaN
    ELSE IF RIsInf(a) THEN (IF RIsInf(b) THEN RNaN ELSE RInf)
    ELSE IF RIsInf(b) THEN Rat(0)
    ELSE IF b[1] = 0 THEN Norm(a[1], 0)
    ELSE MulFinite(a, IF b[1] < 0 THEN <<0 - b[2], 0 - b[1]>> ELSE <<b[2], b[1]>>)

\* a >= b on finite rationals.
RGeq(a, b) == a[1] * b[2] >= b[1] * a[2]

(* ------------------------------ samples -------------------------------- *)

RECURSIVE SumSeq(_)
SumSeq(s) == IF s = <<>> THEN 0 ELSE Head(s) + SumSeq(Tail(s))

RECURSIVE SumSq(_)
SumSq(s) == IF s = <<>> THEN 0 ELSE Head(s) * Head(s) + SumSq(Tail(s))

RECURSIVE Concat(_)
Concat(ss) == IF ss = <<>> THEN <<>> ELSE Head(ss) \o Concat(Tail(ss))

\* np.mean(group): nan on an empty array.
Mean(g) == Norm(SumSeq(g), Len(g))

\* np.sum((g - np.mean(g))**2): the sum over an empty array is 0.
SumSqDev(g) ==
    IF Len(g) = 0 THEN Rat(0)
    ELSE Norm(Len(g) * SumSq(g) - SumSeq(g) * SumSeq(g), Len(g))

\* np.var(group, ddof=1): nan for n <= 1 (division by n - 1 = 0 of 0).
Var(g) ==
    IF Len(g) = 0 THEN RNaN
    ELSE RDiv(SumSqDev(g), Rat(Len(g) - 1))

\* The samples a request draws its groups from: two samples a normality test
\* accepts, one with four observations, one with fewer than three
\* observations (and zero variance), and the empty sample.
Samples == { <<1, 2, 3>>, <<2, 4, 9>>, <<7, 8, 9, 10>>, <<5, 5>>, <<>> }

RECURSIVE SeqsUpTo(_, _)
SeqsUpTo(S, n) ==
    IF n = 0 THEN { <<>> }
    ELSE LET prev == SeqsUpTo(S, n - 1)
         IN  prev \cup { Append(q, x) : q \in { r \in prev : Len(r) = n - 1 }, x \in S }

\* A sample of three observations of one value: its standard deviation is 0.
ConstantSample == <<5, 5, 5>>

\* Samples of a small and of a medium standardized mean: mean 2/3 with
\* variance 28/3 (d = 0.22), and mean 1 with variance 4 (d = 0.5).
EffectSamples == { <<0 - 2, 0, 4>>, <<0 - 1, 1, 3>> }

\* The group lists of a request: up to MaxGroups of the samples, the lists of
\* one or two groups that may hold the constant sample, and the lists of one
\* or two groups of small and medium effects.
GroupLists ==
    SeqsUpTo(Samples, MaxGroups) \cup SeqsUpTo(Samples \cup {ConstantSample}, 2)
        \cup SeqsUpTo(EffectSamples \cup {<<1, 2, 3>>}, 2)

(* ------------------------------ requests ------------------------------- *)

\* An optional value: <<>> is None (or an absent key), <<x>> is x.
None == <<>>
Some(x) == <<x>>

LabelNames == <<"A", "B", "C", "D", "E", "F", "G">>

\* The labels a request may carry for k groups: none, one per group, or one
\* fewer than groups.
LabelChoices(k) ==
    { None, Some(SubSeq(LabelNames, 1, k)) }
        \cup (IF k >= 1 THEN { Some(SubSeq(LabelNames, 1, k - 1)) } ELSE {})

\* The 'options' of a request, in thousandths: absent; alpha 0.01; alpha
\* 1.5 and confidence 1.5, outside the unit interval.
DefaultOptions == [alpha |-> None, confidence |-> None]

OptionChoices ==
    { [alpha |-> Some(10), confidence |-> None],
      [alpha |-> Some(1500), confidence |-> None],
      [alpha |-> None, confidence |-> Some(1500)] }

\* The groups of the requests that carry options.
OptionGroups == << <<1, 2, 3>>, <<2, 4, 9>>, <<7, 8, 9, 10>> >>

\* A request: kind "malformed" is a string json.loads rejects, "no_groups" a
\* JSON object without the key 'groups', "ok" an object with 'groups'.
Request(kind, gs, ls, o) ==
    [kind |-> kind, groups |-> gs, labels |-> ls,
     alpha |-> o.alpha, confidence |-> o.confidence]

OkRequests ==
    { Request("ok", gs, ls, DefaultOptions) :
        gs \in GroupLists, ls \in UNION { LabelChoices(k) : k \in 0..MaxGroups } }

Requests ==
    { r \in OkRequests : r.labels \in LabelChoices(Len(r.groups)) }
        \cup { Request("ok", SubSeq(OptionGroups, 1, k), None, o) :
                 k \in 1..Len(OptionGroups), o \in OptionChoices }
        \cup { Request(kd, <<>>, None, DefaultOptions) : kd \in {"malformed", "no_groups"} }

(* ------------------------------- engine -------------------------------- *)

\* self.significance_level = 0.05, in thousandths.
significance_level == 50

\* self.confidence_level = 0.95, in thousandths.
confidence_level == 950

\* StatisticsEngine.__init__: the fields of a fresh engine.
StatisticsEngine_init ==
    [significance_level |-> significance_level, confidence_level |-> confidence_level]

\* The outcome of a call: a returned value, or a raised exception.
Ret(v) == [ok |-> TRUE, val |-> v]
Raise(e) == [ok |-> FALSE, exc |-> e]

Min(a, b) == IF a < b THEN a ELSE b

\* labels = data.get('labels', [f'Group {i+1}' for i in range(len(groups))])
ResolveLabels(req) ==
    IF req.labels = None
    THEN [i \in 1..Len(req.groups) |-> "Group " \o ToString(i)]
    ELSE req.labels[1]

\* zip(groups, labels) stops at the shorter of the two.
ZipLen(groups, labels) == Min(Len(groups), Len(labels))

\* calculate_descriptive_stats: np.min raises ValueError on an empty array.
calculate_descriptive_stats(groups, labels) ==
    LET m == ZipLen(groups, labels)
    IN  IF \E i \in 1..m : Len(groups[i]) = 0
        THEN Raise("ValueError")
        ELSE Ret([i \in 1..m |->
                 [label |-> labels[i], n |-> Len(groups[i]), mean |-> Mean(groups[i])]])

\* p-values scipy.stats.shapiro / kstest may return for a sample.
NormalityPVals == {20, 300}

\* stats.shapiro returns W = 1, p = 1 on a sample of range zero.
ShapiroPVals(group) ==
    IF Len(group) >= 3 /\ SumSqDev(group) = Rat(0) THEN {PScale} ELSE NormalityPVals

\* test_normality, given the p-value ps[i] the normality test returns for the
\* i-th zipped sample.  stats.shapiro raises ValueError below three
\* observations (scipy 1.11, the version of the pinned Pyodide 0.24.1).
test_normality(groups, labels, ps, alpha) ==
    LET m == ZipLen(groups, labels)
        one(i) ==
            [label     |-> labels[i],
             test      |-> IF Len(groups[i]) < 50 THEN "Shapiro-Wilk" ELSE "Kolmogorov-Smirnov",
             p_value   |-> ps[i],
             is_normal |-> FloatGt(ps[i], alpha)]
        results == [i \in 1..m |-> one(i)]
    IN  IF \E i \in 1..m : Len(groups[i]) < 3
        THEN Raise("ValueError")
        ELSE Ret([results |-> results,
                  all_normal |-> \A i \in 1..m : results[i].is_normal])

\* Levene's statistic divides by the within-group sum of squares of the
\* absolute deviations from the median: it is 0 when every group has at most
\* two observations or holds one value only.
LeveneDegenerate(groups) ==
    \A i \in 1..Len(groups) :
        Len(groups[i]) <= 2 \/ SumSqDev(groups[i]) = Rat(0)

\* p-values stats.levene may return: nan with an empty group, 0 or nan when
\* the statistic's denominator is 0.
LevenePVals(groups) ==
    IF \E i \in 1..Len(groups) : Len(groups[i]) = 0 THEN {NaN}
    ELSE IF LeveneDegenerate(groups) THEN {0, NaN}
    ELSE {20, 300}

\* p-values stats.bartlett may return: nan when a group has no variance
\* estimate or a zero one.
BartlettPVals(groups) ==
    IF \E i \in 1..Len(groups) : Len(groups[i]) <= 1 \/ SumSqDev(groups[i]) = Rat(0)
    THEN {NaN}
    ELSE {20, 300}

\* test_homogeneity, given the p-values of Levene's and Bartlett's tests.
test_homogeneity(groups, levene_p, bartlett_p, alpha) ==
    IF Len(groups) < 2
    THEN [results |-> None, equal_variance |-> TRUE,
          message |-> "no homogeneity test needed for a single group"]
    ELSE [results |-> Some([levene |-> levene_p, bartlett |-> bartlett_p]),
          equal_variance |-> FloatGt(levene_p, alpha),
          recommendation |-> "use Levene's result"]

(* ---------------------------- test selector ---------------------------- *)

\* The branch for one group: the test run and the effect size function
\* called.
SelectOne == [test_type |-> "One-sample t-test", effect |-> "cohens_d_one_sample"]

\* SelectTwo with the two variance branches exchanged.
SelectTwo_variance_swapped(is_normal, equal_variance) ==
    IF is_normal
    THEN IF equal_variance
         THEN [test_type |-> "Welch's t-test", effect |-> "cohens_d"]
         ELSE [test_type |-> "Independent t-test", effect |-> "cohens_d"]
    ELSE [test_type |-> "Mann-Whitney U test", effect |-> "rank_biserial"]

\* The branch for two groups.
SelectTwo(is_normal, equal_variance) ==
    IF is_normal
    THEN IF equal_variance
         THEN [test_type |-> "Independent t-test", effect |-> "cohens_d"]
         ELSE [test_type |-> "Welch's t-test", effect |-> "cohens_d"]
    ELSE [test_type |-> "Mann-Whitney U test", effect |-> "rank_biserial"]

\* SelectMany testing equal_variance before normality: unequal variances
\* send non-normal groups to Welch's ANOVA.
SelectMany_variance_first(is_normal, equal_variance) ==
    IF ~equal_variance
    THEN [test_type |-> "Welch's ANOVA", effect |-> "omega_squared"]
    ELSE IF is_normal
         THEN [test_type |-> "One-way ANOVA", effect |-> "eta_squared"]
         ELSE [test_type |-> "Kruskal-Wallis H test", effect |-> "epsilon_squared"]

\* The branch for three or more groups (and for none).
SelectMany(is_normal, equal_variance) ==
    IF is_normal
    THEN IF equal_variance
         THEN [test_type |-> "One-way ANOVA", effect |-> "eta_squared"]
         ELSE [test_type |-> "Welch's ANOVA", effect |-> "omega_squared"]
    ELSE [test_type |-> "Kruskal-Wallis H test", effect |-> "epsilon_squared"]

\* SelectTest with  n_groups <= 2  as the first condition.
SelectTest_upto_two(n_groups, is_normal, equal_variance) ==
    IF n_groups >= 1 /\ n_groups <= 2 THEN SelectOne
    ELSE SelectMany(is_normal, equal_variance)

\* The branch perform_statistical_test takes: if n_groups == 1 / elif
\* n_groups == 2 / else.
SelectTest(n_groups, is_normal, equal_variance) ==
    IF n_groups = 1 THEN SelectOne
    ELSE IF n_groups = 2 THEN SelectTwo(is_normal, equal_variance)
    ELSE SelectMany(is_normal, equal_variance)

AnyEmpty(groups) == \E i \in 1..Len(groups) : Len(groups[i]) = 0

\* All pooled observations are one value.
AllIdentical(groups) ==
    LET all == Concat(groups)
    IN  \A i \in 1..Len(all) : all[i] = all[1]

\* The exception the selected scipy routine raises on these groups, or None:
\* f_oneway needs at least two samples, mannwhitneyu rejects an empty sample,
\* kruskal rejects observations that are all identical.
TestRaises(groups, test_type) ==
    IF test_type \in {"One-way ANOVA"} /\ Len(groups) < 2 THEN Some("TypeError")
    ELSE IF test_type = "Mann-Whitney U test" /\ AnyEmpty(groups) THEN Some("ValueError")
    ELSE IF test_type = "Kruskal-Wallis H test" /\ ~AnyEmpty(groups) /\ AllIdentical(groups)
         THEN Some("ValueError")
    ELSE None

(* ------------------------------ post-hoc ------------------------------- *)

\* 1 - stats.norm.cdf(z) for z >= 0, in thousandths, from z squared;
\* tabulated at z = 0, 0.5, 1, 1.5, 2, 2.5, 3, 4, a value between two grid
\* points taking the lower point's probability.  Exact at z = 0.
NormSf(z2) ==
    IF RIsNaN(z2) THEN NaN
    ELSE IF RIsInf(z2) THEN 0
    ELSE IF RGeq(z2, <<16, 1>>) THEN 0
    ELSE IF RGeq(z2, <<9, 1>>) THEN 1
    ELSE IF RGeq(z2, <<25, 4>>) THEN 6
    ELSE IF RGeq(z2, <<4, 1>>) THEN 23
    ELSE IF RGeq(z2, <<9, 4>>) THEN 67
    ELSE IF RGeq(z2, <<1, 1>>) THEN 159
    ELSE IF RGeq(z2, <<1, 4>>) THEN 309
    ELSE 500

\* 1 - stats.t.cdf(t, df) for t >= 0, in thousandths, from t squared:
\* the table of three degrees of freedom below df = 4, the normal table
\* from there on; nan when df is nan.
StudentSf(t2, df) ==
    IF RIsNaN(t2) \/ RIsNaN(df) THEN NaN
    ELSE IF RIsInf(df) \/ RGeq(df, <<4, 1>>) THEN NormSf(t2)
    ELSE IF RIsInf(t2) THEN 0
    ELSE IF RGeq(t2, <<16, 1>>) THEN 14
    ELSE IF RGeq(t2, <<9, 1>>) THEN 29
    ELSE IF RGeq(t2, <<25, 4>>) THEN 44
    ELSE IF RGeq(t2, <<4, 1>>) THEN 70
    ELSE IF RGeq(t2, <<9, 4>>) THEN 115
    ELSE IF RGeq(t2, <<1, 1>>) THEN 196
    ELSE IF RGeq(t2, <<1, 4>>) THEN 326
    ELSE 500

\* The square of stats.t.ppf(1 - alpha/2, df), on the same two tables.
StudentCrit2(df) ==
    IF RIsNaN(df) THEN RNaN
    ELSE IF RIsInf(df) \/ RGeq(df, <<4, 1>>) THEN <<4, 1>>
    ELSE <<10, 1>>

\* 2 * (1 - cdf): twice a tail probability.
TwoSided(sf) == IF IsNaN(sf) THEN NaN ELSE 2 * sf

\* 1/n1 + 1/n2 on Python ints, n1 and n2 not 0.
InvSum(n1, n2) == Norm(n1 + n2, n1 * n2)

\* np.sqrt of a negative number is nan: the square of a standard error.
SqOfSqrt(x) == IF RFinite(x) /\ x[1] < 0 THEN RNaN ELSE x

RSquare(d) == RMul(d, d)

\* The absolute mean difference.
MeanDiff_absolute(group1, group2) ==
    <<Abs(RSub(Mean(group1), Mean(group2))[1]), RSub(Mean(group1), Mean(group2))[2]>>

\* 'mean_diff': float(np.mean(group1) - np.mean(group2))
MeanDiff(group1, group2) == RSub(Mean(group1), Mean(group2))

\* q_critical = 3.5, squared: 49/4.
q_critical_sq == <<49, 4>>

\* sse = sum(np.sum((g - np.mean(g))**2) for g in all_groups)
RECURSIVE SSE(_)
SSE(all_groups) ==
    IF all_groups = <<>> THEN Rat(0)
    ELSE RAdd(SumSqDev(Head(all_groups)), SSE(Tail(all_groups)))

\* mse = sse / df_error, df_error = len(all_data) - k
MSE(all_groups, k) == RDiv(SSE(all_groups), Rat(Len(Concat(all_groups)) - k))

\* The return value of tukey_hsd_pair from se squared, the squared mean
\* difference and the mean difference:  p = 1 - norm.cdf(q / sqrt(2)).
TukeyResult(se2, d2, center) ==
    Ret([p_value    |-> NormSf(RDiv(RDiv(d2, se2), Rat(2))),
         ci_center  |-> center,
         ci_margin2 |-> RMul(q_critical_sq, se2)])

\* tukey_hsd_pair: se = sqrt(mse * (1/n1 + 1/n2) / 2), q = |mean1 - mean2| / se.
tukey_hsd_pair(group1, group2, k, all_groups) ==
    IF Len(group1) = 0 \/ Len(group2) = 0
    THEN Raise("ZeroDivisionError")
    ELSE TukeyResult(
            SqOfSqrt(RDiv(RMul(MSE(all_groups, k), InvSum(Len(group1), Len(group2))), Rat(2))),
            RSquare(MeanDiff(group1, group2)),
            MeanDiff(group1, group2))

\* Welch-Satterthwaite df from s = a + b, a squared and b squared, where
\* a = var1/n1 and b = var2/n2.
WelchDf(s, aa, bb, n1, n2) ==
    RDiv(RSquare(s), RAdd(RDiv(aa, Rat(n1 - 1)), RDiv(bb, Rat(n2 - 1))))

\* The return value of games_howell_pair: p = 2 * (1 - t.cdf(t, df)).
GamesHowellResult(se2, df, d2, center) ==
    Ret([p_value    |-> TwoSided(StudentSf(RDiv(d2, se2), df)),
         ci_center  |-> center,
         ci_margin2 |-> RMul(StudentCrit2(df), se2)])

GamesHowellFrom(a, b, n1, n2, d2, center) ==
    GamesHowellResult(SqOfSqrt(RAdd(a, b)),
                      WelchDf(RAdd(a, b), RSquare(a), RSquare(b), n1, n2),
                      d2, center)

\* games_howell_pair: se = sqrt(var1/n1 + var2/n2), t = |mean1 - mean2| / se.
games_howell_pair(group1, group2) ==
    GamesHowellFrom(RDiv(Var(group1), Rat(Len(group1))),
                    RDiv(Var(group2), Rat(Len(group2))),
                    Len(group1), Len(group2),
                    RSquare(MeanDiff(group1, group2)),
                    MeanDiff(group1, group2))

\* Twice the rank stats.rankdata gives the i-th observation (ties share the
\* average rank).
Rank2(all, i) ==
    2 * Cardinality({j \in 1..Len(all) : all[j] < all[i]})
      + Cardinality({j \in 1..Len(all) : all[j] = all[i]}) + 1

\* The sum of twice the ranks of the observations lo+1 .. hi.
RECURSIVE RankSum2(_, _, _)
RankSum2(all, lo, hi) ==
    IF hi <= lo THEN 0 ELSE RankSum2(all, lo, hi - 1) + Rank2(all, hi)

\* np.mean(ranks[lo:hi]) with 0-based Python bounds: nan on an empty slice.
MeanRank(all, lo, hi) ==
    IF Min(hi, Len(all)) <= lo THEN RNaN
    ELSE Norm(RankSum2(all, lo, Min(hi, Len(all))), 2 * (Min(hi, Len(all)) - lo))

\* The squared z statistic of dunn_test_pair: rank1 = np.mean(ranks[:n1]),
\* rank2 = np.mean(ranks[n1:n1+n2]), se^2 = N(N+1)/12 * (1/n1 + 1/n2).
DunnZ2(all, n1, n2) ==
    RDiv(RSquare(RSub(MeanRank(all, 0, n1), MeanRank(all, n1, n1 + n2))),
         RMul(Norm(Len(all) * (Len(all) + 1), 12), InvSum(n1, n2)))

\* dunn_test_pair: p = 2 * (1 - norm.cdf(z)), and 0 for both confidence
\* bounds.
dunn_test_pair(group1, group2, all_groups) ==
    IF Len(group1) = 0 \/ Len(group2) = 0
    THEN Raise("ZeroDivisionError")
    ELSE Ret([p_value    |-> TwoSided(NormSf(DunnZ2(Concat(all_groups), Len(group1), Len(group2)))),
              ci_center  |-> Rat(0),
              ci_margin2 |-> Rat(0)])

\* The pairs of the loops  for i: for j in range(i + 1, n_groups)  from the
\* pair (i, j) on, 1-based, in the order the loops visit them.
RECURSIVE PairsFrom(_, _, _)
PairsFrom(i, j, n_groups) ==
    IF i > n_groups THEN <<>>
    ELSE IF j > n_groups THEN PairsFrom(i + 1, i + 2, n_groups)
    ELSE <<(<<i, j>>)>> \o PairsFrom(i, j + 1, n_groups)

\* The inner loop of the first group starting at the group itself.
PairIndices_from_self(n_groups) == PairsFrom(1, 1, n_groups)

\* All pairs i < j of perform_post_hoc's two loops.
PairIndices(n_groups) == PairsFrom(1, 2, n_groups)

\* n_comparisons = n_groups * (n_groups - 1) / 2
NComparisons(n_groups) == (n_groups * (n_groups - 1)) \div 2

\* The adjustment without the cap at 1.0.
BonferroniAdjust_uncapped(p_value, n_comparisons) ==
    IF IsNaN(p_value) THEN NaN ELSE p_value * n_comparisons

\* adjusted_p = min(result['p_value'] * n_comparisons, 1.0); Python's min
\* returns its first argument when that is nan.
BonferroniAdjust(p_value, n_comparisons) ==
    IF IsNaN(p_value) THEN NaN
    ELSE IF PScale < p_value * n_comparisons THEN PScale
    ELSE p_value * n_comparisons

\* 'bonferroni_alpha': self.significance_level / n_comparisons, a rational
\* in thousandths.
BonferroniAlpha(alpha, n_comparisons) == Norm(alpha, n_comparisons)

\* The method with Tukey HSD for every ANOVA, whatever the variances.
PostHocMethod_anova_tukey(test_type, equal_variance) ==
    IF test_type \in {"One-way ANOVA", "Welch's ANOVA"} THEN Some("Tukey HSD")
    ELSE IF test_type = "Kruskal-Wallis H test" THEN Some("Dunn's test")
    ELSE None

\* The method perform_post_hoc applies to every pair, or None when the test
\* type names neither an ANOVA nor Kruskal-Wallis.
PostHocMethod(test_type, equal_variance) ==
    IF test_type \in {"One-way ANOVA", "Welch's ANOVA"}
    THEN (IF equal_variance THEN Some("Tukey HSD") ELSE Some("Games-Howell"))
    ELSE IF test_type = "Kruskal-Wallis H test" THEN Some("Dunn's test")
    ELSE None

\* The pair's method applied to it.
PairResult(method, group1, group2, all_groups) ==
    IF method = "Tukey HSD"
    THEN tukey_hsd_pair(group1, group2, Len(all_groups), all_groups)
    ELSE IF method = "Games-Howell"
    THEN games_howell_pair(group1, group2)
    ELSE dunn_test_pair(group1, group2, all_groups)

\* The comparison with 'significant' decided on the raw p-value.
Comparison_raw_significance(res, adjusted_p, label1, label2, mean_diff, alpha) ==
    [group1      |-> label1,
     group2      |-> label2,
     mean_diff   |-> mean_diff,
     p_value     |-> res.p_value,
     adjusted_p  |-> adjusted_p,
     significant |-> FloatLt(res.p_value, alpha),
     ci_center   |-> res.ci_center,
     ci_margin2  |-> res.ci_margin2]

\* comparisons.append({...}) for a pair whose method returned  res.
Comparison(res, adjusted_p, label1, label2, mean_diff, alpha) ==
    [group1      |-> label1,
     group2      |-> label2,
     mean_diff   |-> mean_diff,
     p_value     |-> res.p_value,
     adjusted_p  |-> adjusted_p,
     significant |-> FloatLt(adjusted_p, alpha),
     ci_center   |-> res.ci_center,
     ci_margin2  |-> res.ci_margin2]

PairOutcome(result, n_groups, label1, label2, mean_diff, alpha) ==
    IF ~result.ok THEN result
    ELSE Ret(Comparison(result.val,
                        BonferroniAdjust(result.val.p_value, NComparisons(n_groups)),
                        label1, label2, mean_diff, alpha))

\* One pass of the loop body of perform_post_hoc for the pair (i, j):
\* labels[i], labels[j] raise IndexError past the end of labels.
PostHocPair(all_groups, labels_, method, i, j, alpha) ==
    IF i > Len(labels_) \/ j > Len(labels_)
    THEN Raise("IndexError")
    ELSE PairOutcome(PairResult(method, all_groups[i], all_groups[j], all_groups),
                     Len(all_groups), labels_[i], labels_[j],
                     MeanDiff(all_groups[i], all_groups[j]), alpha)

\* The first pair that raised, if any, ends the call; otherwise the dict.
PostHocCollect(method, outcomes, bonferroni_alpha) ==
    IF \E x \in 1..Len(outcomes) : ~outcomes[x].ok
    THEN outcomes[CHOOSE x \in 1..Len(outcomes) :
                    /\ ~outcomes[x].ok
                    /\ \A y \in 1..(x - 1) : outcomes[y].ok]
    ELSE Ret([method           |-> method,
              comparisons      |-> [x \in 1..Len(outcomes) |-> outcomes[x].val],
              bonferroni_alpha |-> bonferroni_alpha])

PostHocOver(method, pairs, all_groups, labels_, alpha) ==
    IF method = None \/ pairs = <<>>
    THEN Raise("UnboundLocalError")
    ELSE PostHocCollect(
            method[1],
            [x \in 1..Len(pairs) |->
                PostHocPair(all_groups, labels_, method[1], pairs[x][1], pairs[x][2], alpha)],
            BonferroniAlpha(alpha, NComparisons(Len(all_groups))))

\* perform_post_hoc: every pair in loop order; a test type without a method
\* leaves 'method' unbound at the return.
perform_post_hoc(all_groups, labels_, test_type, equal_variance, alpha) ==
    PostHocOver(PostHocMethod(test_type, equal_variance),
                PairIndices(Len(all_groups)), all_groups, labels_, alpha)

\* The significant pairs generate_summary lists.
SignificantPairs(comparisons) ==
    SelectSeq([x \in 1..Len(comparisons) |->
                 <<comparisons[x].group1, comparisons[x].group2, comparisons[x].significant>>],
              LAMBDA c : c[3])

\* generate_summary: the counts, the test and the significant pairs it
\* writes into the text.
generate_summary(all_groups, test_results, post_hoc_results) ==
    [n_groups  |-> Len(all_groups),
     total_n   |-> Len(Concat(all_groups)),
     test_type |-> test_results.test_type,
     significant_pairs |->
        IF post_hoc_results = None THEN <<>>
        ELSE SignificantPairs(post_hoc_results[1].comparisons)]

(* -------------------- test statistics and effect sizes ----------------- *)

Sgn(x) == IF x > 0 THEN 1 ELSE IF x < 0 THEN 0 - 1 ELSE 0

\* A float known exactly: sign * mag when root is FALSE, sign * sqrt(mag) when
\* root is TRUE (the t statistics and Cohen's d divide by a square root);
\* mag is a non-negative rational, RNaN for nan, RInf for an infinity.
RealNaN == [root |-> FALSE, sign |-> 0, mag |-> RNaN]
RealOf(r) ==
    IF RIsNaN(r) THEN RealNaN
    ELSE [root |-> FALSE, sign |-> Sgn(r[1]), mag |-> <<Abs(r[1]), r[2]>>]
RealIsNaN(x) == RIsNaN(x.mag)
RealIsInf(x) == RIsInf(x.mag)
RealFinite(x) == RFinite(x.mag)
RealIsZero(x) == x.mag = Rat(0)

\* num / np.sqrt(den2) under numpy's rules: x/0 is inf, 0/0 is nan.
RootQuot(num, den2) ==
    IF RIsNaN(RDiv(RSquare(num), den2)) THEN RealNaN
    ELSE [root |-> TRUE, sign |-> Sgn(num[1]), mag |-> RDiv(RSquare(num), den2)]

\* stats.ttest_1samp(group, 0): t = mean / sqrt(var / n).
ttest_1samp(group) == RootQuot(Mean(group), RDiv(Var(group), Rat(Len(group))))

\* calculate_cohens_d_one_sample: d = (mean - 0) / std.
calculate_cohens_d_one_sample(group) == RootQuot(Mean(group), Var(group))

\* ((n1-1)*var1 + (n2-1)*var2) / (n1+n2-2)
PooledVar(group1, group2) ==
    RDiv(RAdd(RMul(Rat(Len(group1) - 1), Var(group1)),
              RMul(Rat(Len(group2) - 1), Var(group2))),
         Rat(Len(group1) + Len(group2) - 2))

\* stats.ttest_ind(group1, group2): t = (mean1 - mean2) / sqrt(sp2 * (1/n1 + 1/n2)).
ttest_ind(group1, group2) ==
    IF Len(group1) = 0 \/ Len(group2) = 0 THEN RealNaN
    ELSE RootQuot(MeanDiff(group1, group2),
                  RMul(PooledVar(group1, group2), InvSum(Len(group1), Len(group2))))

\* stats.ttest_ind(group1, group2, equal_var=False):
\* t = (mean1 - mean2) / sqrt(var1/n1 + var2/n2).
ttest_ind_welch(group1, group2) ==
    IF Len(group1) = 0 \/ Len(group2) = 0 THEN RealNaN
    ELSE RootQuot(MeanDiff(group1, group2),
                  RAdd(RDiv(Var(group1), Rat(Len(group1))),
                       RDiv(Var(group2), Rat(Len(group2)))))

\* Cohen's d with the first mean in place of the mean difference.
calculate_cohens_d_first_mean(group1, group2) ==
    RootQuot(Mean(group1), PooledVar(group1, group2))

\* calculate_cohens_d: d = (mean1 - mean2) / pooled_std.
calculate_cohens_d(group1, group2) ==
    RootQuot(MeanDiff(group1, group2), PooledVar(group1, group2))

\* The statistic stats.mannwhitneyu returns: U of the first sample, its rank
\* sum among the pooled observations minus n1(n1+1)/2.
mannwhitneyu(group1, group2) ==
    Norm(RankSum2(group1 \o group2, 0, Len(group1)) - Len(group1) * (Len(group1) + 1), 2)

\* The rank-biserial r with U divided by n1 + n2 in place of n1 * n2.
calculate_rank_biserial_by_sum(group1, group2) ==
    RSub(Rat(1), RDiv(RMul(Rat(2), mannwhitneyu(group1, group2)),
                      Rat(Len(group1) + Len(group2))))

\* calculate_rank_biserial: r = 1 - (2 * u_stat) / (n1 * n2).
calculate_rank_biserial(group1, group2) ==
    RSub(Rat(1), RDiv(RMul(Rat(2), mannwhitneyu(group1, group2)),
                      Rat(Len(group1) * Len(group2))))

\* sum over the groups of (sum of the group)^2 / n.
RECURSIVE SumOfSquaredSums(_)
SumOfSquaredSums(groups) ==
    IF groups = <<>> THEN Rat(0)
    ELSE RAdd(Norm(SumSeq(Head(groups)) * SumSeq(Head(groups)), Len(Head(groups))),
              SumOfSquaredSums(Tail(groups)))

\* ss_between: sum of len(g) * (mean(g) - grand_mean)^2.
SSBetween(groups) ==
    RSub(SumOfSquaredSums(groups),
         Norm(SumSeq(Concat(groups)) * SumSeq(Concat(groups)), Len(Concat(groups))))

\* The F of a between and a within sum of squares.
FRatio(ssb, ssw, k, n) == RDiv(RDiv(ssb, Rat(k - 1)), RDiv(ssw, Rat(n - k)))

\* The statistic of stats.f_oneway(*groups): msb / msw.
f_oneway(groups) ==
    FRatio(SSBetween(groups), SSE(groups), Len(groups), Len(Concat(groups)))

\* calculate_eta_squared: ss_between / ss_total.
calculate_eta_squared(groups) == RDiv(SSBetween(groups), SumSqDev(Concat(groups)))

\* max(0, omega_sq): Python's max keeps its first argument when the second
\* is nan.
OmegaOf(f, df_between, df_within) ==
    IF RIsNaN(RDiv(RSub(f, Rat(1)), RAdd(f, Norm(df_within + 1, df_between))))
         \/ RDiv(RSub(f, Rat(1)), RAdd(f, Norm(df_within + 1, df_between)))[1] < 0
    THEN Rat(0)
    ELSE RDiv(RSub(f, Rat(1)), RAdd(f, Norm(df_within + 1, df_between)))

\* calculate_omega_squared: (F - 1) / (F + (df_within + 1) / df_between) with
\* the F of stats.f_oneway.
calculate_omega_squared(groups) ==
    OmegaOf(f_oneway(groups), Len(groups) - 1, Len(Concat(groups)) - Len(groups))

\* w_i = n_i / var_i
WelchWeight(g) == RDiv(Rat(Len(g)), Var(g))

RECURSIVE WelchWSum(_)
WelchWSum(groups) ==
    IF groups = <<>> THEN Rat(0)
    ELSE RAdd(WelchWeight(Head(groups)), WelchWSum(Tail(groups)))

RECURSIVE WelchWMeanSum(_)
WelchWMeanSum(groups) ==
    IF groups = <<>> THEN Rat(0)
    ELSE RAdd(RMul(WelchWeight(Head(groups)), Mean(Head(groups))),
              WelchWMeanSum(Tail(groups)))

\* np.sum(w_i * (mean_i - grand_mean)**2)
RECURSIVE WelchNumSum(_, _)
WelchNumSum(groups, grand_mean) ==
    IF groups = <<>> THEN Rat(0)
    ELSE RAdd(RMul(WelchWeight(Head(groups)),
                   RSquare(RSub(Mean(Head(groups)), grand_mean))),
              WelchNumSum(Tail(groups), grand_mean))

\* np.sum((1 - w_i/w_sum)**2 / (n_i - 1))
RECURSIVE WelchLambdaSum(_, _)
WelchLambdaSum(groups, w_sum) ==
    IF groups = <<>> THEN Rat(0)
    ELSE RAdd(RDiv(RSquare(RSub(Rat(1), RDiv(WelchWeight(Head(groups)), w_sum))),
                   Rat(Len(Head(groups)) - 1)),
              WelchLambdaSum(Tail(groups), w_sum))

\* f_stat = numerator / denominator, lambda_val = 3 * sum / (k^2 - 1),
\* denominator = 1 + 2 (k - 2) lambda_val / (k^2 - 1).
WelchF(num_sum, lambda_sum, k) ==
    RDiv(RDiv(num_sum, Rat(k - 1)),
         RAdd(Rat(1), RDiv(RMul(Rat(2 * (k - 2)),
                                RDiv(RMul(Rat(3), lambda_sum), Rat(k * k - 1))),
                           Rat(k * k - 1))))

\* welch_anova: the F statistic.
welch_anova(groups) ==
    WelchF(WelchNumSum(groups, RDiv(WelchWMeanSum(groups), WelchWSum(groups))),
           WelchLambdaSum(groups, WelchWSum(groups)),
           Len(groups))

\* The number of pooled observations equal to the i-th one.
TieCount(all, i) == Cardinality({j \in 1..Len(all) : all[j] = all[i]})

\* sum of t^3 - t over the groups of tied values.
RECURSIVE TieTerm(_, _)
TieTerm(all, i) ==
    IF i = 0 THEN 0 ELSE TieTerm(all, i - 1) + (TieCount(all, i) * TieCount(all, i) - 1)

\* sum over the groups of (rank sum)^2 / n, the pooled ranks of the groups
\* from position lo on.
RECURSIVE KruskalSsbn(_, _, _)
KruskalSsbn(groups, all, lo) ==
    IF groups = <<>> THEN Rat(0)
    ELSE RAdd(Norm(RankSum2(all, lo, lo + Len(Head(groups)))
                     * RankSum2(all, lo, lo + Len(Head(groups))),
                   4 * Len(Head(groups))),
              KruskalSsbn(Tail(groups), all, lo + Len(Head(groups))))

\* h = 12 / (N (N + 1)) * ssbn - 3 (N + 1), divided by the tie correction
\* 1 - tie_term / (N^3 - N).
KruskalH(ssbn, n, tie_term) ==
    RDiv(RSub(RMul(Norm(12, n * (n + 1)), ssbn), Rat(3 * (n + 1))),
         RSub(Rat(1), Norm(tie_term, n * n * n - n)))

\* The statistic of stats.kruskal(*groups): nan with an empty group.
kruskal(groups) ==
    IF AnyEmpty(groups) THEN RNaN
    ELSE KruskalH(KruskalSsbn(groups, Concat(groups), 0), Len(Concat(groups)),
                  TieTerm(Concat(groups), Len(Concat(groups))))

\* calculate_epsilon_squared: h_stat / (n_total - 1).
calculate_epsilon_squared(groups) == RDiv(kruskal(groups), Rat(Len(Concat(groups)) - 1))

\* The statistic of the selected test.
Statistic(groups, test_type) ==
    CASE test_type = "One-sample t-test" -> ttest_1samp(groups[1])
      [] test_type = "Independent t-test" -> ttest_ind(groups[1], groups[2])
      [] test_type = "Welch's t-test" -> ttest_ind_welch(groups[1], groups[2])
      [] test_type = "Mann-Whitney U test" -> RealOf(mannwhitneyu(groups[1], groups[2]))
      [] test_type = "One-way ANOVA" -> RealOf(f_oneway(groups))
      [] test_type = "Welch's ANOVA" -> RealOf(welch_anova(groups))
      [] test_type = "Kruskal-Wallis H test" -> RealOf(kruskal(groups))

\* The value of the effect size the branch computes.
EffectValue(groups, effect) ==
    CASE effect = "cohens_d_one_sample" -> calculate_cohens_d_one_sample(groups[1])
      [] effect = "cohens_d" -> calculate_cohens_d(groups[1], groups[2])
      [] effect = "rank_biserial" -> RealOf(calculate_rank_biserial(groups[1], groups[2]))
      [] effect = "eta_squared" -> RealOf(calculate_eta_squared(groups))
      [] effect = "omega_squared" -> RealOf(calculate_omega_squared(groups))
      [] effect = "epsilon_squared" -> RealOf(calculate_epsilon_squared(groups))

\* abs(x) >= c for a float x and a positive cut point c: False when x is nan.
RealAbsGe(x, c) ==
    IF RealIsNaN(x) THEN FALSE
    ELSE IF RealIsInf(x) THEN TRUE
    ELSE IF x.root THEN RGeq(x.mag, RSquare(c))
    ELSE RGeq(x.mag, c)

\* x >= c for a float x and a positive cut point c.
RealGe(x, c) == x.sign > 0 /\ RealAbsGe(x, c)

\* The magnitude of Cohen's d taken from d itself, without abs().
CohenMagnitude_signed(d) ==
    IF RealGe(d, <<4, 5>>) THEN "large"
    ELSE IF RealGe(d, <<1, 2>>) THEN "medium"
    ELSE IF RealGe(d, <<1, 5>>) THEN "small"
    ELSE "negligible"

\* calculate_cohens_d, calculate_cohens_d_one_sample: 'negligible', then
\* 'small' if abs(d) >= 0.2, 'medium' if abs(d) >= 0.5, 'large' if
\* abs(d) >= 0.8; the last assignment made stays.
CohenMagnitude(d) ==
    IF RealAbsGe(d, <<4, 5>>) THEN "large"
    ELSE IF RealAbsGe(d, <<1, 2>>) THEN "medium"
    ELSE IF RealAbsGe(d, <<1, 5>>) THEN "small"
    ELSE "negligible"

\* calculate_rank_biserial: 'negligible', then 'small' if abs(r) >= 0.1,
\* 'medium' if abs(r) >= 0.3, 'large' if abs(r) >= 0.5.
RankBiserialMagnitude(r) ==
    IF RealAbsGe(r, <<1, 2>>) THEN "large"
    ELSE IF RealAbsGe(r, <<3, 10>>) THEN "medium"
    ELSE IF RealAbsGe(r, <<1, 10>>) THEN "small"
    ELSE "negligible"

\* calculate_eta_squared, calculate_omega_squared, calculate_epsilon_squared:
\* 'small', then 'medium' if the value >= 0.06, 'large' if it is >= 0.14.
VarianceShareMagnitude(v) ==
    IF RealGe(v, <<7, 50>>) THEN "large"
    ELSE IF RealGe(v, <<3, 50>>) THEN "medium"
    ELSE "small"

\* The 'magnitude' of the effect size the branch computes.
EffectMagnitude(effect, value) ==
    IF effect \in {"cohens_d", "cohens_d_one_sample"} THEN CohenMagnitude(value)
    ELSE IF effect = "rank_biserial" THEN RankBiserialMagnitude(value)
    ELSE VarianceShareMagnitude(value)

\* p-values a test may return for its statistic: the tail probability of a
\* nan statistic is nan, of an infinite one 0, of 0 it is 1.
TailPVals(stat) ==
    IF RealIsNaN(stat) THEN {NaN}
    ELSE IF RealIsInf(stat) THEN {0}
    ELSE IF RealIsZero(stat) THEN {PScale}
    ELSE {30, 50, 300}

\* p-values stats.mannwhitneyu may return: 1 when U is n1 n2 / 2, the two
\* samples ranking alike.
MannWhitneyPVals(group1, group2) ==
    IF RMul(Rat(2), mannwhitneyu(group1, group2)) = Rat(Len(group1) * Len(group2))
    THEN {PScale}
    ELSE {30, 50, 300}

\* p-values the selected test may return on these groups, given its
\* statistic.
TestPVals(groups, test_type, statistic) ==
    IF test_type = "Mann-Whitney U test"
    THEN MannWhitneyPVals(groups[1], groups[2])
    ELSE TailPVals(statistic)

\* The dict perform_statistical_test returns.
TestResult(sel, statistic, effect_value, p_value, alpha) ==
    [test_type    |-> sel.test_type,
     statistic    |-> statistic,
     p_value      |-> p_value,
     significant  |-> FloatLt(p_value, alpha),
     effect_size  |-> sel.effect,
     effect_value |-> effect_value,
     magnitude    |-> EffectMagnitude(sel.effect, effect_value)]

\* The outcomes of the selected branch: one for each p-value the test may
\* return.
TestOutcomes(sel, statistic, effect_value, p_values, alpha) ==
    { Ret(TestResult(sel, statistic, effect_value, p, alpha)) : p \in p_values }

TestWith(sel, all_groups, statistic, alpha) ==
    TestOutcomes(sel, statistic, EffectValue(all_groups, sel.effect),
                 TestPVals(all_groups, sel.test_type, statistic), alpha)

TestOf(sel, all_groups, alpha) ==
    IF TestRaises(all_groups, sel.test_type) # None
    THEN { Raise(TestRaises(all_groups, sel.test_type)[1]) }
    ELSE TestWith(sel, all_groups, Statistic(all_groups, sel.test_type), alpha)

\* perform_statistical_test: the outcomes it may have on these groups.
perform_statistical_test(all_groups, is_normal, equal_variance, alpha) ==
    TestOf(SelectTest(Len(all_groups), is_normal, equal_variance), all_groups, alpha)

(* --------------------------- the invocation ---------------------------- *)

VARIABLES
    entry,        \* the entry point called: "analyze" or "analyze_data"
    request,      \* the request it is called with
    pc,           \* the place the invocation has reached
    engine,       \* the StatisticsEngine instance's fields, None before it exists
    groups,       \* analyze's local  groups
    labels,       \* analyze's local  labels
    descriptive,  \* descriptive_stats, None until computed
    normality,    \* normality_results, None until computed
    homogeneity,  \* homogeneity_results, None until computed
    test,         \* test_results, None until computed
    post_hoc,     \* post_hoc_results, None until (and unless) computed
    raised,       \* the exception in flight, None when there is none
    result,       \* what analyze returns, None until it returns
    response,     \* what the entry point hands its caller, None until then
    other         \* a second invocation in flight while this one runs, or None

vars == <<entry, request, pc, engine, groups, labels, descriptive, normality,
          homogeneity, test, post_hoc, raised, result, response, other>>

\* The exceptions of the model; each is a subclass of Exception.
ExceptionClasses ==
    {"JSONDecodeError", "KeyError", "ValueError", "TypeError", "IndexError",
     "ZeroDivisionError", "UnboundLocalError"}

\* A handler for ValueError alone.
analyze_catches_value_error(e) == e = "ValueError"

\* analyze's handler:  except Exception as e
analyze_catches(e) == e \in ExceptionClasses

\* analyze_data's handler:  except Exception as e
analyze_data_catches(e) == e \in ExceptionClasses

\* return {'success': False, 'error': str(e)}  (analyze)
analyze_except(e) == [success |-> FALSE, error |-> e]

\* return json.dumps({'success': False, 'error': str(e)})  (analyze_data)
analyze_data_except(e) == [success |-> FALSE, error |-> e]

\* The dict analyze returns when no stage raised.
analyze_return(d, n, h, t, ph, sm) ==
    [success |-> TRUE, descriptive |-> d, normality |-> n, homogeneity |-> h,
     test |-> t, post_hoc |-> ph, summary |-> sm]

\* The condition without the significance of the omnibus test.
NeedsPostHoc_any_result(n_groups, significant) == n_groups > 2

\* if len(groups) > 2 and test_results['significant']:
NeedsPostHoc(n_groups, significant) == n_groups > 2 /\ significant

alpha_of(e) == e[1].significance_level

\* analyze with a hidden switch: each call flips self.significance_level
\* between 0.05 and 0.01.
self_after_analyze_flipped(self, req) ==
    [self EXCEPT !.significance_level = IF @ = significance_level THEN 10 ELSE significance_level]

\* analyze storing the request's options.alpha in self.significance_level.
self_after_analyze_alpha_stored(self, req) ==
    IF req.alpha = None THEN self ELSE [self EXCEPT !.significance_level = req.alpha[1]]

\* The attributes of self once analyze has read the request: analyze and the
\* methods it calls assign no attribute of self and never read data['options'].
self_after_analyze(self, req) == self

\* An invocation about to start: the entry point is called with one of the
\* requests reqs.
Start(reqs) ==
    /\ entry \in {"analyze", "analyze_data"}
    /\ request \in reqs
    /\ entry = "analyze" => request.kind # "malformed"
    /\ pc = IF entry = "analyze_data" THEN "loads" ELSE "analyze"
    /\ engine = IF entry = "analyze" THEN Some(StatisticsEngine_init) ELSE None
    /\ groups = <<>>
    /\ labels = <<>>
    /\ descriptive = None
    /\ normality = None
    /\ homogeneity = None
    /\ test = None
    /\ post_hoc = None
    /\ raised = None
    /\ result = None
    /\ response = None

Init ==
    /\ Start(Requests)
    /\ other = None

\* A stage of analyze raised: control goes to analyze's except clause.
Fail(e) ==
    /\ raised' = Some(e)
    /\ pc' = "except"

\* analyze_data: json.loads(data_json), then engine = StatisticsEngine().
JsonLoads ==
    /\ pc = "loads"
    /\ IF request.kind = "malformed"
       THEN /\ raised' = Some("JSONDecodeError")
            /\ pc' = "data_except"
            /\ UNCHANGED engine
       ELSE /\ engine' = Some(StatisticsEngine_init)
            /\ pc' = "analyze"
            /\ UNCHANGED raised
    /\ UNCHANGED <<other, entry, request, groups, labels, descriptive, normality,
                   homogeneity, test, post_hoc, result, response>>

\* analyze's except clause: the error dict is analyze's return value; an
\* exception the clause does not catch leaves analyze.
AnalyzeExcept ==
    /\ pc = "except"
    /\ IF analyze_catches(raised[1])
       THEN /\ result' = Some(analyze_except(raised[1]))
            /\ raised' = None
            /\ pc' = "return"
       ELSE /\ pc' = IF entry = "analyze_data" THEN "data_except" ELSE "escaped"
            /\ UNCHANGED <<raised, result>>
    /\ UNCHANGED <<other, entry, request, engine, groups, labels, descriptive, normality,
                   homogeneity, test, post_hoc, response>>

\* analyze_data's except clause: the error dict is the response; an
\* exception the clause does not catch reaches the caller.
AnalyzeDataExcept ==
    /\ pc = "data_except"
    /\ IF analyze_data_catches(raised[1])
       THEN /\ response' = Some(analyze_data_except(raised[1]))
            /\ raised' = None
            /\ pc' = "done"
       ELSE /\ pc' = "escaped"
            /\ UNCHANGED <<raised, response>>
    /\ UNCHANGED <<other, entry, request, engine, groups, labels, descriptive, normality,
                   homogeneity, test, post_hoc, result>>

\* analyze: groups = [np.array(g) for g in data['groups']]; labels = ...
ReadGroups ==
    /\ pc = "analyze"
    /\ IF request.kind = "no_groups"
       THEN /\ Fail("KeyError")
            /\ UNCHANGED <<engine, groups, labels>>
       ELSE /\ groups' = request.groups
            /\ labels' = ResolveLabels(request)
            /\ engine' = Some(self_after_analyze(engine[1], request))
            /\ pc' = "descriptive"
            /\ UNCHANGED raised
    /\ UNCHANGED <<other, entry, request, descriptive, normality, homogeneity,
                   test, post_hoc, result, response>>

DescriptiveDone(r) ==
    IF r.ok
    THEN /\ descriptive' = Some(r.val)
         /\ pc' = "normality"
         /\ UNCHANGED raised
    ELSE /\ Fail(r.exc)
         /\ UNCHANGED descriptive

Descriptive ==
    /\ pc = "descriptive"
    /\ DescriptiveDone(calculate_descriptive_stats(groups, labels))
    /\ UNCHANGED <<other, entry, request, engine, groups, labels, normality, homogeneity,
                   test, post_hoc, result, response>>

NormalityDone(r) ==
    IF r.ok
    THEN /\ normality' = Some(r.val)
         /\ pc' = "homogeneity"
         /\ UNCHANGED raised
    ELSE /\ Fail(r.exc)
         /\ UNCHANGED normality

Normality ==
    /\ pc = "normality"
    /\ \E ps \in { f \in [1..ZipLen(groups, labels) -> NormalityPVals \cup {PScale}] :
                      \A i \in DOMAIN f : f[i] \in ShapiroPVals(groups[i]) } :
         NormalityDone(test_normality(groups, labels, ps, alpha_of(engine)))
    /\ UNCHANGED <<other, entry, request, engine, groups, labels, descriptive, homogeneity,
                   test, post_hoc, result, response>>

Homogeneity ==
    /\ pc = "homogeneity"
    /\ \E lp \in LevenePVals(groups), bp \in BartlettPVals(groups) :
         homogeneity' = Some(test_homogeneity(groups, lp, bp, alpha_of(engine)))
    /\ pc' = "test"
    /\ UNCHANGED <<other, entry, request, engine, groups, labels, descriptive, normality,
                   test, post_hoc, raised, result, response>>

TestDone(r) ==
    IF r.ok
    THEN /\ test' = Some(r.val)
         /\ pc' = IF NeedsPostHoc(Len(groups), r.val.significant)
                  THEN "post_hoc" ELSE "summary"
         /\ UNCHANGED raised
    ELSE /\ Fail(r.exc)
         /\ UNCHANGED test

Test ==
    /\ pc = "test"
    /\ \E r \in perform_statistical_test(groups, normality[1].all_normal,
                                         homogeneity[1].equal_variance,
                                         alpha_of(engine)) :
         TestDone(r)
    /\ UNCHANGED <<other, entry, request, engine, groups, labels, descriptive, normality,
                   homogeneity, post_hoc, result, response>>

\* The post-hoc stage handing control back to the test stage.
PostHocDone_back_to_test(r) ==
    IF r.ok
    THEN /\ post_hoc' = Some(r.val)
         /\ pc' = "test"
         /\ UNCHANGED raised
    ELSE /\ Fail(r.exc)
         /\ UNCHANGED post_hoc

PostHocDone(r) ==
    IF r.ok
    THEN /\ post_hoc' = Some(r.val)
         /\ pc' = "summary"
         /\ UNCHANGED raised
    ELSE /\ Fail(r.exc)
         /\ UNCHANGED post_hoc

PostHoc ==
    /\ pc = "post_hoc"
    /\ PostHocDone(perform_post_hoc(groups, labels, test[1].test_type,
                                    homogeneity[1].equal_variance, alpha_of(engine)))
    /\ UNCHANGED <<other, entry, request, engine, groups, labels, descriptive, normality,
                   homogeneity, test, result, response>>

\* The return statement of analyze: the summary and the response dict.
Summary ==
    /\ pc = "summary"
    /\ result' = Some(analyze_return(descriptive[1], normality[1], homogeneity[1],
                                     test[1], post_hoc,
                                     generate_summary(groups, test[1], post_hoc)))
    /\ pc' = "return"
    /\ UNCHANGED <<other, entry, request, engine, groups, labels, descriptive, normality,
                   homogeneity, test, post_hoc, raised, response>>

\* json.dumps(result): 'significant' is a numpy.bool_, which json cannot
\* serialize, so dumping a success dict raises TypeError; the error dict
\* holds a Python bool and a str and is dumped as it is.
JsonDumps(r) == IF r.success THEN Raise("TypeError") ELSE Ret(r)

\* analyze has returned: its caller gets the dict; analyze_data dumps it and
\* returns the text, or goes to its except clause when json.dumps raises.
Return ==
    /\ pc = "return"
    /\ IF entry = "analyze"
       THEN /\ response' = result
            /\ pc' = "done"
            /\ UNCHANGED raised
       ELSE IF JsonDumps(result[1]).ok
       THEN /\ response' = Some(JsonDumps(result[1]).val)
            /\ pc' = "done"
            /\ UNCHANGED raised
       ELSE /\ raised' = Some(JsonDumps(result[1]).exc)
            /\ pc' = "data_except"
            /\ UNCHANGED response
    /\ UNCHANGED <<other, entry, request, engine, groups, labels, descriptive, normality,
                   homogeneity, test, post_hoc, result>>

Next ==
    \/ JsonLoads
    \/ AnalyzeExcept
    \/ AnalyzeDataExcept
    \/ ReadGroups
    \/ Descriptive
    \/ Normality
    \/ Homogeneity
    \/ Test
    \/ PostHoc
    \/ Summary
    \/ Return

Spec == Init /\ [][Next]_vars

(* ----------------------- two invocations in flight --------------------- *)

\* The requests of two invocations that overlap: one group with and without
\* options.alpha, three groups, and a request without 'groups'.
OneGroup(o) == Request("ok", SubSeq(OptionGroups, 1, 1), None, o)

OverlapPairs ==
    { <<OneGroup(DefaultOptions), OneGroup(DefaultOptions)>>,
      <<OneGroup([alpha |-> Some(10), confidence |-> None]), OneGroup(DefaultOptions)>>,
      <<Request("ok", OptionGroups, None, DefaultOptions),
        OneGroup([alpha |-> Some(10), confidence |-> None])>>,
      <<Request("no_groups", <<>>, None, DefaultOptions), OneGroup(DefaultOptions)>> }

\* The engine an invocation holds of its own: analyze_data constructs one in
\* each call; the calls of analyze are calls on one engine object.
OwnEngine(e) == IF entry = "analyze" THEN None ELSE e

\* The locals of the invocation that is running.
Locals ==
    [request |-> request, pc |-> pc, engine |-> OwnEngine(engine), groups |-> groups,
     labels |-> labels, descriptive |-> descriptive, normality |-> normality,
     homogeneity |-> homogeneity, test |-> test, post_hoc |-> post_hoc,
     raised |-> raised, result |-> result, response |-> response]

\* The locals of an invocation that has not run yet.
FreshCall(req) ==
    [request |-> req, pc |-> IF entry = "analyze_data" THEN "loads" ELSE "analyze",
     engine |-> None, groups |-> <<>>, labels |-> <<>>, descriptive |-> None,
     normality |-> None, homogeneity |-> None, test |-> None, post_hoc |-> None,
     raised |-> None, result |-> None, response |-> None]

InitOverlap ==
    \E pair \in OverlapPairs :
        /\ Start({pair[1]})
        /\ other = Some(FreshCall(pair[2]))

\* The running invocation is suspended between two stages, or has finished,
\* and the other one, not finished yet, runs on: each keeps its locals, the
\* engine object of analyze is the same.
Switch ==
    /\ other # None
    /\ other[1].pc # "done"
    /\ other' = Some(Locals)
    /\ request' = other[1].request
    /\ pc' = other[1].pc
    /\ engine' = IF entry = "analyze" THEN engine ELSE other[1].engine
    /\ groups' = other[1].groups
    /\ labels' = other[1].labels
    /\ descriptive' = other[1].descriptive
    /\ normality' = other[1].normality
    /\ homogeneity' = other[1].homogeneity
    /\ test' = other[1].test
    /\ post_hoc' = other[1].post_hoc
    /\ raised' = other[1].raised
    /\ result' = other[1].result
    /\ response' = other[1].response
    /\ UNCHANGED entry

NextOverlap ==
    \/ Next
    \/ Switch

SpecOverlap == InitOverlap /\ [][NextOverlap]_vars

(* ------------------------------ properties ----------------------------- *)

\* The dicts handed out so far: analyze's return value and the entry
\* point's response.
Handed == { x[1] : x \in ({result, response} \ {None}) }

\* The number of groups of the request.
GroupCount == Len(request.groups)

\* The request's significance level: options.alpha, 0.05 when absent.
RequestAlpha == IF request.alpha = None THEN 50 ELSE request.alpha[1]

SuccessFields ==
    {"success", "descriptive", "normality", "homogeneity", "test", "post_hoc", "summary"}

\* C1: a successful response has a non-null post_hoc exactly when the request
\* has more than two groups and test.significant is true; with one or two
\* groups post_hoc is null even when the test is significant.
C1_PostHocIff ==
    \A r \in Handed :
        r.success =>
            /\ (r.post_hoc # None) <=> (GroupCount > 2 /\ r.test.significant)
            /\ GroupCount <= 2 => r.post_hoc = None

\* A successful response of a request with three or more groups that carries
\* a post-hoc result.
C1_Witness ==
    /\ pc = "done"
    /\ response[1].success
    /\ GroupCount > 2
    /\ response[1].test.significant
    /\ response[1].post_hoc # None

\* C2: with exactly two groups the test is fixed by (all_normal,
\* equal_variance): pooled t-test, Welch's t-test (both with Cohen's d), or
\* Mann-Whitney with the rank-biserial r when not normal.
C2_TwoGroupTable ==
    (test # None /\ Len(groups) = 2) =>
        LET nrm == normality[1].all_normal
            eqv == homogeneity[1].equal_variance
            t   == test[1]
        IN  /\ (nrm /\ eqv)  => (t.test_type = "Independent t-test" /\ t.effect_size = "cohens_d")
            /\ (nrm /\ ~eqv) => (t.test_type = "Welch's t-test" /\ t.effect_size = "cohens_d")
            /\ ~nrm => (t.test_type = "Mann-Whitney U test" /\ t.effect_size = "rank_biserial")

\* Two normal groups of unequal variance, tested with Welch's t-test.
C2_Witness ==
    /\ test # None
    /\ Len(groups) = 2
    /\ normality[1].all_normal
    /\ ~homogeneity[1].equal_variance
    /\ test[1].test_type = "Welch's t-test"

\* C3: with more than two groups the test is fixed by (all_normal,
\* equal_variance): one-way ANOVA with eta squared, Welch's ANOVA with omega
\* squared, or Kruskal-Wallis with epsilon squared when not normal.
C3_ManyGroupTable ==
    (test # None /\ Len(groups) > 2) =>
        LET nrm == normality[1].all_normal
            eqv == homogeneity[1].equal_variance
            t   == test[1]
        IN  /\ (nrm /\ eqv)  => (t.test_type = "One-way ANOVA" /\ t.effect_size = "eta_squared")
            /\ (nrm /\ ~eqv) => (t.test_type = "Welch's ANOVA" /\ t.effect_size = "omega_squared")
            /\ ~nrm => (t.test_type = "Kruskal-Wallis H test" /\ t.effect_size = "epsilon_squared")

\* Three or more normal groups of unequal variance, tested with Welch's ANOVA.
C3_Witness ==
    /\ test # None
    /\ Len(groups) > 2
    /\ normality[1].all_normal
    /\ ~homogeneity[1].equal_variance
    /\ test[1].test_type = "Welch's ANOVA"

\* C4: one group always gets the one-sample t-test with the one-sample
\* Cohen's d, and no other group count gets that test.
C4_OneSample ==
    test # None =>
        /\ Len(groups) = 1 =>
              (test[1].test_type = "One-sample t-test"
                 /\ test[1].effect_size = "cohens_d_one_sample")
        /\ (test[1].test_type = "One-sample t-test"
              \/ test[1].effect_size = "cohens_d_one_sample") => Len(groups) = 1

\* A single group whose normality test failed, tested with the one-sample
\* t-test all the same.
C4_Witness ==
    /\ test # None
    /\ Len(groups) = 1
    /\ ~normality[1].all_normal
    /\ test[1].test_type = "One-sample t-test"

\* C5: whatever fails, no exception leaves the entry point, and what it
\* hands its caller is either exactly {success: false, error} or the full
\* result, never a part of it.
C5_AlwaysStructured ==
    /\ pc # "escaped"
    /\ \A r \in Handed :
          \/ (~r.success /\ DOMAIN r = {"success", "error"})
          \/ (r.success /\ DOMAIN r = SuccessFields)
    /\ pc = "done" => response # None

\* The normality stage raised after the descriptive stage had produced its
\* part of the result: the response is the error alone.
C5_Witness ==
    /\ pc = "done"
    /\ descriptive # None
    /\ normality = None
    /\ ~response[1].success
    /\ response[1].error = "ValueError"

\* C6 (as claimed): test.significant is p < alpha for the request's
\* options.alpha, and the same alpha decides is_normal, equal_variance and
\* the corrected alpha of the post-hoc result.
C6_Claimed ==
    /\ test # None => test[1].significant = FloatLt(test[1].p_value, RequestAlpha)
    /\ normality # None =>
          \A i \in 1..Len(normality[1].results) :
              normality[1].results[i].is_normal
                  = FloatGt(normality[1].results[i].p_value, RequestAlpha)
    /\ (homogeneity # None /\ homogeneity[1].results # None) =>
          homogeneity[1].equal_variance
              = FloatGt(homogeneity[1].results[1].levene, RequestAlpha)
    /\ post_hoc # None =>
          post_hoc[1].bonferroni_alpha[1] * ((GroupCount * (GroupCount - 1)) \div 2)
              = RequestAlpha * post_hoc[1].bonferroni_alpha[2]

\* The position of the pair (i, j), i < j, among the pairs of k groups
\* listed with i ascending, then j ascending.
PairPosition(i, j, k) == (i - 1) * k - ((i - 1) * i) \div 2 + (j - i)

\* The label of the i-th group of the request.
LabelOfGroup(i) ==
    IF request.labels = None THEN "Group " \o ToString(i) ELSE request.labels[1][i]

\* C7: every comparison's adjusted p is min(raw p * C, 1.0) with
\* C = k(k-1)/2, so it is at least the raw p and at most 1.
C7_Bonferroni ==
    post_hoc # None =>
        LET cnt == (GroupCount * (GroupCount - 1)) \div 2
        IN  \A x \in 1..Len(post_hoc[1].comparisons) :
              LET c == post_hoc[1].comparisons[x]
              IN  /\ c.p_value \in 0..PScale
                  /\ c.adjusted_p = (IF c.p_value * cnt > PScale THEN PScale
                                     ELSE c.p_value * cnt)
                  /\ c.adjusted_p >= c.p_value
                  /\ c.adjusted_p <= PScale

\* A post-hoc result with one comparison whose adjusted p is capped at 1 and
\* one whose adjusted p is strictly between the raw p and 1.
C7_Witness ==
    /\ post_hoc # None
    /\ \E x, y \in 1..Len(post_hoc[1].comparisons) :
          LET c == post_hoc[1].comparisons[x]
              d == post_hoc[1].comparisons[y]
          IN  /\ c.p_value * ((GroupCount * (GroupCount - 1)) \div 2) > PScale
              /\ c.adjusted_p = PScale
              /\ d.p_value > 0 /\ d.adjusted_p > d.p_value /\ d.adjusted_p < PScale

\* C8 (as claimed): the corrected alpha of a post-hoc result is the
\* request's significance level divided by C = k(k-1)/2.
C8_Claimed ==
    post_hoc # None =>
        LET cnt == (GroupCount * (GroupCount - 1)) \div 2
            ba  == post_hoc[1].bonferroni_alpha
        IN  ba[2] > 0 /\ ba[1] * cnt = RequestAlpha * ba[2]

\* C9: a post-hoc result lists one comparison per unordered pair of groups,
\* k(k-1)/2 of them, with i ascending, then j ascending, i < j, and group1,
\* group2 are the labels of groups i and j.
C9_CanonicalPairs ==
    post_hoc # None =>
        LET k  == GroupCount
            cs == post_hoc[1].comparisons
        IN  /\ Len(cs) = (k * (k - 1)) \div 2
            /\ \A i \in 1..k : \A j \in (i + 1)..k :
                  /\ cs[PairPosition(i, j, k)].group1 = LabelOfGroup(i)
                  /\ cs[PairPosition(i, j, k)].group2 = LabelOfGroup(j)

\* A post-hoc result over at least three groups whose last comparison is the
\* pair of the last two groups.
C9_Witness ==
    /\ post_hoc # None
    /\ GroupCount >= 3
    /\ post_hoc[1].comparisons[Len(post_hoc[1].comparisons)].group1
          = LabelOfGroup(GroupCount - 1)
    /\ post_hoc[1].comparisons[Len(post_hoc[1].comparisons)].group2
          = LabelOfGroup(GroupCount)

\* C10: the mean difference of the comparison of groups i < j is the signed
\* mean(group i) - mean(group j), whatever the method.
C10_SignedMeanDiff ==
    post_hoc # None =>
        LET k  == GroupCount
            cs == post_hoc[1].comparisons
            gs == request.groups
        IN  \A i \in 1..k : \A j \in (i + 1)..k :
              LET md == cs[PairPosition(i, j, k)].mean_diff
              IN  /\ md[2] > 0
                  /\ md[1] * (Len(gs[i]) * Len(gs[j]))
                       = md[2] * (SumSeq(gs[i]) * Len(gs[j]) - SumSeq(gs[j]) * Len(gs[i]))

\* A post-hoc result with a negative and a positive mean difference.
C10_Witness ==
    /\ post_hoc # None
    /\ \E x, y \in 1..Len(post_hoc[1].comparisons) :
          /\ post_hoc[1].comparisons[x].mean_diff[1] < 0
          /\ post_hoc[1].comparisons[y].mean_diff[1] > 0

\* The number of observations of the i-th sample of the request.
SampleSize(i) == Len(request.groups[i])

\* C11 (as claimed): a sample of fewer than three observations does not
\* abort the normality stage; the response is a success and that sample's
\* normality result is marked insufficient, not normal.
C11_Claimed ==
    (request.kind = "ok" /\ \E i \in 1..GroupCount : SampleSize(i) < 3) =>
        /\ (descriptive # None /\ pc # "normality") => normality # None
        /\ pc = "done" => response[1].success
        /\ normality # None =>
              \A i \in 1..GroupCount :
                  SampleSize(i) < 3 =>
                      /\ i <= Len(normality[1].results)
                      /\ normality[1].results[i].test = "insufficient_sample"
                      /\ ~normality[1].results[i].is_normal

\* C12 (as claimed): no numeric output of a successful response is nan or
\* infinite: the statistic, the p-values, the effect size, the mean
\* differences and the interval margins are finite.
C12_Claimed ==
    \A r \in Handed :
        r.success =>
            /\ RealFinite(r.test.statistic)
            /\ RealFinite(r.test.effect_value)
            /\ ~IsNaN(r.test.p_value)
            /\ r.homogeneity.results # None =>
                  /\ ~IsNaN(r.homogeneity.results[1].levene)
                  /\ ~IsNaN(r.homogeneity.results[1].bartlett)
            /\ r.post_hoc # None =>
                  \A x \in 1..Len(r.post_hoc[1].comparisons) :
                      /\ ~IsNaN(r.post_hoc[1].comparisons[x].p_value)
                      /\ RFinite(r.post_hoc[1].comparisons[x].mean_diff)
                      /\ RFinite(r.post_hoc[1].comparisons[x].ci_margin2)

\* An option value, in thousandths, that lies in the open interval (0, 1).
InUnitInterval(o) == o = None \/ (o[1] > 0 /\ o[1] < PScale)

\* C15 (as claimed): a request whose options.alpha or options.confidence is
\* outside (0, 1) gets the error response and no analysis result.
C15_Claimed ==
    (request.kind = "ok"
        /\ ~(InUnitInterval(request.alpha) /\ InUnitInterval(request.confidence))) =>
        /\ \A r \in Handed : ~r.success
        /\ descriptive = None

\* C16 (as claimed): a request with no group, with an empty group, or with
\* labels of another length than groups gets the error response, and a
\* successful response has results for every group supplied.
C16_Claimed ==
    /\ (request.kind = "ok"
          /\ (\/ GroupCount = 0
              \/ \E i \in 1..GroupCount : SampleSize(i) = 0
              \/ (request.labels # None /\ Len(request.labels[1]) # GroupCount))) =>
          \A r \in Handed : ~r.success
    /\ \A r \in Handed :
          r.success =>
              /\ Len(r.descriptive) = GroupCount
              /\ Len(r.normality.results) = GroupCount

\* C17 (as claimed): with two or more groups, equal_variance is Levene's
\* p-value > alpha for the request's alpha, whatever Bartlett's p-value is.
C17_Claimed ==
    (homogeneity # None /\ Len(groups) >= 2) =>
        homogeneity[1].equal_variance
            = FloatGt(homogeneity[1].results[1].levene, RequestAlpha)

\* The nonparametric tests of the selector.
Nonparametric == {"Mann-Whitney U test", "Kruskal-Wallis H test"}

\* C18 (as claimed): all_normal is the conjunction of the samples' is_normal
\* flags, each p-value > alpha for the request's alpha; a sample that is not
\* normal or has too few observations makes all_normal false and, with two
\* or more groups, sends the selector to a nonparametric test.
C18_Claimed ==
    /\ normality # None =>
          /\ normality[1].all_normal
                = \A i \in 1..Len(normality[1].results) : normality[1].results[i].is_normal
          /\ \A i \in 1..Len(normality[1].results) :
                normality[1].results[i].is_normal
                    = FloatGt(normality[1].results[i].p_value, RequestAlpha)
    /\ (request.kind = "ok" /\ descriptive # None /\ pc # "normality"
          /\ \E i \in 1..GroupCount : SampleSize(i) < 3) =>
          (normality # None /\ ~normality[1].all_normal)
    /\ (test # None /\ ~normality[1].all_normal /\ Len(groups) >= 2) =>
          test[1].test_type \in Nonparametric

\* C19 (as claimed): each sample's normality diagnostic is chosen by its
\* size alone: none below 3 observations (marked insufficient, not normal),
\* Shapiro-Wilk below 50, Kolmogorov-Smirnov from 50 on.
C19_Claimed ==
    (request.kind = "ok" /\ descriptive # None /\ pc # "normality") =>
        /\ normality # None
        /\ Len(normality[1].results) = GroupCount
        /\ \A i \in 1..GroupCount :
              normality[1].results[i].test
                  = (IF SampleSize(i) < 3 THEN "insufficient_sample"
                     ELSE IF SampleSize(i) < 50 THEN "Shapiro-Wilk"
                     ELSE "Kolmogorov-Smirnov")

NormalityPs(n) == [i \in 1..Len(n.results) |-> n.results[i].p_value]

\* The p-values the library returned to an invocation with locals c.
Draws(c) ==
    << IF c.normality = None THEN <<>> ELSE NormalityPs(c.normality[1]),
       IF c.homogeneity = None \/ c.homogeneity[1].results = None THEN None
       ELSE c.homogeneity[1].results,
       IF c.test = None THEN <<>> ELSE <<c.test[1].p_value>> >>

\* C13: two invocations with the same request, the library returning the same
\* p-values to both, hand out the same response, whichever ran first and
\* however they were interleaved.
C13_Idempotent ==
    (other # None /\ pc = "done" /\ other[1].pc = "done"
        /\ request = other[1].request /\ Draws(Locals) = Draws(other[1])) =>
        response = other[1].response

\* Two finished invocations of analyze with the same request, the same
\* p-values and the same successful response.
C13_Witness ==
    /\ other # None
    /\ pc = "done"
    /\ other[1].pc = "done"
    /\ request = other[1].request
    /\ Draws(Locals) = Draws(other[1])
    /\ response[1].success
    /\ response = other[1].response

\* The homogeneity result a fresh engine gives an invocation with locals c.
HomogeneityAlone(c) ==
    IF c.homogeneity[1].results = None
    THEN test_homogeneity(c.request.groups, NaN, NaN, significance_level)
    ELSE test_homogeneity(c.request.groups, c.homogeneity[1].results[1].levene,
                          c.homogeneity[1].results[1].bartlett, significance_level)

\* Every stage output and the response of an invocation with locals c is
\* what a fresh engine computes from the invocation's own request and the
\* outputs of its own earlier stages.
AsAlone(c) ==
    /\ c.descriptive # None =>
          /\ c.groups = c.request.groups
          /\ c.labels = ResolveLabels(c.request)
          /\ Ret(c.descriptive[1]) = calculate_descriptive_stats(c.groups, c.labels)
    /\ c.normality # None =>
          Ret(c.normality[1])
              = test_normality(c.groups, c.labels, NormalityPs(c.normality[1]),
                               significance_level)
    /\ c.homogeneity # None => c.homogeneity[1] = HomogeneityAlone(c)
    /\ c.test # None =>
          Ret(c.test[1]) \in perform_statistical_test(c.groups,
                                                      c.normality[1].all_normal,
                                                      c.homogeneity[1].equal_variance,
                                                      significance_level)
    /\ c.post_hoc # None =>
          Ret(c.post_hoc[1]) = perform_post_hoc(c.groups, c.labels, c.test[1].test_type,
                                                c.homogeneity[1].equal_variance,
                                                significance_level)
    /\ (c.result # None /\ c.result[1].success) =>
          c.result[1] = analyze_return(c.descriptive[1], c.normality[1], c.homogeneity[1],
                                       c.test[1], c.post_hoc,
                                       generate_summary(c.groups, c.test[1], c.post_hoc))
    /\ (c.response # None /\ c.response[1].success) => c.response = c.result

\* C14: with two invocations in flight, stages interleaved in any order, each
\* gets the stage outputs and the response it gets alone, and the fields of
\* every engine stay what __init__ set.
C14_Isolated ==
    /\ engine # None => engine[1] = StatisticsEngine_init
    /\ AsAlone(Locals)
    /\ other # None =>
          /\ other[1].engine # None => other[1].engine[1] = StatisticsEngine_init
          /\ AsAlone(other[1])

\* Two invocations with different options.alpha both past the normality
\* stage and neither finished.
C14_Witness ==
    /\ other # None
    /\ pc = "post_hoc"
    /\ other[1].pc = "test"
    /\ request.alpha # other[1].request.alpha
    /\ normality[1].all_normal
    /\ ~other[1].normality[1].all_normal

\* C21: for two non-empty groups the rank-biserial r = 1 - 2U/(n1 n2) lies in
\* [-1, 1]: the r of the first two groups analyze has read from the request,
\* and the r a Mann-Whitney result reports.
C21_RankBiserialBounded ==
    /\ (pc = "descriptive" /\ GroupCount >= 2 /\ SampleSize(1) > 0 /\ SampleSize(2) > 0) =>
          /\ calculate_rank_biserial(request.groups[1], request.groups[2])[2] > 0
          /\ Abs(calculate_rank_biserial(request.groups[1], request.groups[2])[1])
                <= calculate_rank_biserial(request.groups[1], request.groups[2])[2]
    /\ (test # None /\ test[1].effect_size = "rank_biserial") =>
          /\ RealFinite(test[1].effect_value)
          /\ ~test[1].effect_value.root
          /\ test[1].effect_value.mag[1] <= test[1].effect_value.mag[2]

\* A Mann-Whitney result whose first sample lies wholly above the second:
\* U = n1 n2 and r = -1, the lower end of the interval.
C21_Witness ==
    /\ test # None
    /\ test[1].test_type = "Mann-Whitney U test"
    /\ test[1].effect_size = "rank_biserial"
    /\ test[1].effect_value.sign = 0 - 1
    /\ test[1].effect_value.mag = Rat(1)

\* The post-hoc method of an omnibus test.
MethodOfTest(test_type) ==
    CASE test_type = "One-way ANOVA" -> "Tukey HSD"
      [] test_type = "Welch's ANOVA" -> "Games-Howell"
      [] test_type = "Kruskal-Wallis H test" -> "Dunn's test"
      [] OTHER -> "none"

\* The raw p-value and the interval the method gives the x-th pair of the
\* groups, in loop order.
PairValues(method, x) ==
    PairResult(method, groups[PairIndices(Len(groups))[x][1]],
               groups[PairIndices(Len(groups))[x][2]], groups).val

\* C22: the post-hoc method follows from the omnibus test and the variance
\* decision: one-way ANOVA (equal variances) gives Tukey HSD, Welch's ANOVA
\* (unequal variances) Games-Howell, Kruskal-Wallis Dunn's test; when the
\* post-hoc stage hands over its result, every pair of it is what that one
\* method computes; and once post-hoc is triggered a method is defined, so
\* none is ever missing at the return.
C22_MethodTable ==
    /\ pc = "post_hoc" =>
          /\ test[1].test_type \in {"One-way ANOVA", "Welch's ANOVA", "Kruskal-Wallis H test"}
          /\ PostHocMethod(test[1].test_type, homogeneity[1].equal_variance)
                = Some(MethodOfTest(test[1].test_type))
    /\ raised # Some("UnboundLocalError")
    /\ post_hoc # None =>
          /\ post_hoc[1].method = MethodOfTest(test[1].test_type)
          /\ test[1].test_type = "One-way ANOVA" => homogeneity[1].equal_variance
          /\ test[1].test_type = "Welch's ANOVA" => ~homogeneity[1].equal_variance
    /\ (post_hoc # None /\ pc = "summary") =>
          \A x \in 1..Len(post_hoc[1].comparisons) :
              [p_value    |-> post_hoc[1].comparisons[x].p_value,
               ci_center  |-> post_hoc[1].comparisons[x].ci_center,
               ci_margin2 |-> post_hoc[1].comparisons[x].ci_margin2]
                  = PairValues(post_hoc[1].method, x)

\* A post-hoc result after Welch's ANOVA on groups of unequal variance: every
\* pair compared by Games-Howell.
C22_Witness ==
    /\ post_hoc # None
    /\ test[1].test_type = "Welch's ANOVA"
    /\ ~homogeneity[1].equal_variance
    /\ post_hoc[1].method = "Games-Howell"
    /\ Len(post_hoc[1].comparisons) = 3

\* C23 (as claimed): a comparison of Dunn's test carries no confidence
\* interval: its bounds are absent, not numbers.
C23_Claimed ==
    (post_hoc # None /\ post_hoc[1].method = "Dunn's test") =>
        \A x \in 1..Len(post_hoc[1].comparisons) :
            /\ post_hoc[1].comparisons[x].ci_center = None
            /\ post_hoc[1].comparisons[x].ci_margin2 = None

\* C25 (as claimed): with fewer than two groups the homogeneity stage runs no
\* test: equal_variance is true, results is null, and the object has the
\* fields results, equal_variance and recommendation.
C25_Claimed ==
    (homogeneity # None /\ Len(groups) < 2) =>
        /\ homogeneity[1].results = None
        /\ homogeneity[1].equal_variance
        /\ {"results", "equal_variance", "recommendation"} \subseteq DOMAIN homogeneity[1]

\* The position of a place of the invocation in the order of analyze_data
\* and analyze.
StageRank(p) ==
    CASE p = "loads" -> 0
      [] p = "analyze" -> 1
      [] p = "descriptive" -> 2
      [] p = "normality" -> 3
      [] p = "homogeneity" -> 4
      [] p = "test" -> 5
      [] p = "post_hoc" -> 6
      [] p = "summary" -> 7
      [] p = "except" -> 8
      [] p = "return" -> 9
      [] p = "data_except" -> 10
      [] p \in {"done", "escaped"} -> 11

\* The outputs of the five stages, in stage order.
StageOutputs == <<descriptive, normality, homogeneity, test, post_hoc>>

\* The stages that have produced their output.
StagesRun == {s \in 1..5 : StageOutputs[s] # None}

\* The stage outputs before and after a step differ at most in the output of
\* stage s, which had none before.
OnlyStageRan(s) ==
    /\ descriptive' = IF s = 1 THEN descriptive' ELSE descriptive
    /\ normality' = IF s = 2 THEN normality' ELSE normality
    /\ homogeneity' = IF s = 3 THEN homogeneity' ELSE homogeneity
    /\ test' = IF s = 4 THEN test' ELSE test
    /\ post_hoc' = IF s = 5 THEN post_hoc' ELSE post_hoc
    /\ StageOutputs[s] = None

\* C24: the stages of one invocation run in the order descriptive,
\* normality, homogeneity, test, post-hoc (only when it is needed), summary:
\* every step moves forward, so no stage runs twice; a stage starts with the
\* outputs of all earlier stages present and none of a later one; a step
\* writes the output of its own stage and leaves the request, the groups and
\* the earlier outputs as they are; and the returned result holds the stage
\* outputs unchanged.
C24_StageOrder ==
    [][/\ StageRank(pc') > StageRank(pc)
       /\ request' = request
       /\ pc \in {"descriptive", "normality", "homogeneity", "test", "post_hoc"} =>
             /\ StagesRun = (IF pc = "post_hoc" THEN 1..4 ELSE 1..(StageRank(pc) - 2))
             /\ OnlyStageRan(StageRank(pc) - 1)
             /\ groups' = groups /\ labels' = labels
             /\ pc' \in {"normality", "homogeneity", "test", "post_hoc", "summary", "except"}
             /\ pc' # "except" => (StageRank(pc') = StageRank(pc) + 1
                                     \/ (pc = "test" /\ pc' = "summary"))
             /\ pc' = "post_hoc" => NeedsPostHoc(Len(groups), test'[1].significant)
             /\ (pc = "test" /\ pc' = "summary") =>
                   ~NeedsPostHoc(Len(groups), test'[1].significant)
       /\ pc \notin {"descriptive", "normality", "homogeneity", "test", "post_hoc"} =>
             StageOutputs' = StageOutputs
       /\ pc = "summary" =>
             /\ StagesRun \in {1..4, 1..5}
             /\ result'[1].descriptive = descriptive[1]
             /\ result'[1].normality = normality[1]
             /\ result'[1].homogeneity = homogeneity[1]
             /\ result'[1].test = test[1]
             /\ result'[1].post_hoc = post_hoc
      ]_vars

\* All five stages have run, the post-hoc stage last, and the summary is
\* about to be assembled.
C24_Witness ==
    /\ pc = "summary"
    /\ StagesRun = 1..5
    /\ result = None

\* The number of pooled observations before those of the i-th group.
GroupStart(gs, i) == Len(Concat(SubSeq(gs, 1, i - 1)))

\* The squared z of Dunn's test for the groups i and j with the mean ranks of
\* the observations of group i and of group j among the pooled ranks, over
\* the rank variance s2.
PooledRankZ2(gs, i, j, s2) ==
    RDiv(RSquare(RSub(MeanRank(Concat(gs), GroupStart(gs, i), GroupStart(gs, i) + Len(gs[i])),
                      MeanRank(Concat(gs), GroupStart(gs, j), GroupStart(gs, j) + Len(gs[j])))),
         RMul(s2, InvSum(Len(gs[i]), Len(gs[j]))))

\* N(N+1)/12
UntiedRankVariance(n) == Norm(n * (n + 1), 12)

\* C26 (as claimed): in Dunn's test the pair (i, j) compares the mean of the
\* pooled ranks of the observations of group i with that of group j.
C26_Claimed ==
    (post_hoc # None /\ post_hoc[1].method = "Dunn's test") =>
        \A i \in 1..GroupCount : \A j \in (i + 1)..GroupCount :
            post_hoc[1].comparisons[PairPosition(i, j, GroupCount)].p_value
                = TwoSided(NormSf(PooledRankZ2(groups, i, j,
                                               UntiedRankVariance(Len(Concat(groups))))))

\* [N(N+1)(2N+1)/6 - tie_term/2] / (N-1) when values are tied, N(N+1)/12
\* when none are.
TieCorrectedRankVariance(n, tie_term) ==
    IF tie_term > 0
    THEN RDiv(RSub(Norm(n * (n + 1) * (2 * n + 1), 6), Norm(tie_term, 2)), Rat(n - 1))
    ELSE UntiedRankVariance(n)

\* C27 (as claimed): the rank variance of Dunn's test is tie-corrected: the z
\* of a pair, from the two mean ranks dunn_test_pair compares, is over
\* S^2 = [N(N+1)(2N+1)/6 - tie_term/2]/(N-1) when pooled values are tied and
\* over N(N+1)/12 when none are.
C27_Claimed ==
    (post_hoc # None /\ post_hoc[1].method = "Dunn's test") =>
        \A x \in 1..Len(post_hoc[1].comparisons) :
            post_hoc[1].comparisons[x].p_value
                = TwoSided(NormSf(
                    RDiv(RSquare(RSub(
                            MeanRank(Concat(groups), 0,
                                     Len(groups[PairIndices(GroupCount)[x][1]])),
                            MeanRank(Concat(groups),
                                     Len(groups[PairIndices(GroupCount)[x][1]]),
                                     Len(groups[PairIndices(GroupCount)[x][1]])
                                       + Len(groups[PairIndices(GroupCount)[x][2]])))),
                         RMul(TieCorrectedRankVariance(
                                 Len(Concat(groups)),
                                 TieTerm(Concat(groups), Len(Concat(groups)))),
                              InvSum(Len(groups[PairIndices(GroupCount)[x][1]]),
                                     Len(groups[PairIndices(GroupCount)[x][2]]))))))

\* C28 (as claimed): the raw p-value of a Tukey HSD pair is the two-sided
\* 2 (1 - Phi(q / sqrt 2)) with q = |mean_i - mean_j| / se, so a pair of equal
\* means has raw p = 1.
C28_Claimed ==
    (post_hoc # None /\ post_hoc[1].method = "Tukey HSD") =>
        \A i \in 1..GroupCount : \A j \in (i + 1)..GroupCount :
            /\ post_hoc[1].comparisons[PairPosition(i, j, GroupCount)].p_value
                  = TwoSided(NormSf(RDiv(
                        RDiv(RSquare(MeanDiff(groups[i], groups[j])),
                             RDiv(RMul(MSE(groups, GroupCount),
                                       InvSum(Len(groups[i]), Len(groups[j]))),
                                  Rat(2))),
                        Rat(2))))
            /\ Mean(groups[i]) = Mean(groups[j]) =>
                  post_hoc[1].comparisons[PairPosition(i, j, GroupCount)].p_value = PScale

\* The number of the cut points that abs(v) reaches.
CutsReached(v, cuts) == Cardinality({x \in 1..Len(cuts) : RealAbsGe(v, cuts[x])})

\* C29: every effect size carries one magnitude category, the step function
\* of its absolute value: Cohen's d (both variants) negligible / small /
\* medium / large with the cut points 0.2, 0.5, 0.8; the rank-biserial r the
\* same categories with 0.1, 0.3, 0.5; eta, omega and epsilon squared small /
\* medium / large with 0.06, 0.14 and never negligible.  A nan value reaches
\* no cut point and has the lowest category of its table.
C29_MagnitudeSteps ==
    test # None =>
        /\ test[1].effect_size \in {"cohens_d", "cohens_d_one_sample"} =>
              test[1].magnitude
                = <<"negligible", "small", "medium", "large">>
                    [CutsReached(test[1].effect_value, <<(<<1, 5>>), <<1, 2>>, <<4, 5>>>>) + 1]
        /\ test[1].effect_size = "rank_biserial" =>
              test[1].magnitude
                = <<"negligible", "small", "medium", "large">>
                    [CutsReached(test[1].effect_value, <<(<<1, 10>>), <<3, 10>>, <<1, 2>>>>) + 1]
        /\ test[1].effect_size \in {"eta_squared", "omega_squared", "epsilon_squared"} =>
              /\ test[1].magnitude
                    = <<"small", "medium", "large">>
                        [CutsReached(test[1].effect_value, <<(<<3, 50>>), <<7, 50>>>>) + 1]
              /\ test[1].magnitude # "negligible"
        /\ test[1].effect_size
              \in {"cohens_d", "cohens_d_one_sample", "rank_biserial",
                   "eta_squared", "omega_squared", "epsilon_squared"}

\* A single sample whose Cohen's d is exactly 0.5, the cut point between
\* small and medium: its magnitude is medium.
C29_Witness ==
    /\ test # None
    /\ test[1].effect_size = "cohens_d_one_sample"
    /\ test[1].effect_value.root
    /\ test[1].effect_value.mag = <<1, 4>>
    /\ test[1].magnitude = "medium"

\* C30: a comparison is significant (adjusted p < alpha) exactly when its raw
\* p-value is below the corrected alpha the result reports: the capped
\* Bonferroni-adjusted p-value and alpha / C give one decision.
C30_SameDecision ==
    post_hoc # None =>
        \A x \in 1..Len(post_hoc[1].comparisons) :
            /\ post_hoc[1].comparisons[x].significant
                  <=> (/\ ~IsNaN(post_hoc[1].comparisons[x].p_value)
                       /\ post_hoc[1].comparisons[x].p_value * post_hoc[1].bonferroni_alpha[2]
                             < post_hoc[1].bonferroni_alpha[1])
            /\ post_hoc[1].comparisons[x].significant
                  = FloatLt(post_hoc[1].comparisons[x].adjusted_p, alpha_of(engine))

\* A post-hoc result with a significant pair and a pair that is not
\* significant although its raw p-value is below alpha.
C30_Witness ==
    /\ post_hoc # None
    /\ \E x, y \in 1..Len(post_hoc[1].comparisons) :
          /\ post_hoc[1].comparisons[x].significant
          /\ ~post_hoc[1].comparisons[y].significant
          /\ ~IsNaN(post_hoc[1].comparisons[y].p_value)
          /\ post_hoc[1].comparisons[y].p_value < alpha_of(engine)

====
